---- MODULE Spec2Model ----
(***************************************************************************)
(* The Session & streaming transaction engine of sazid, its session        *)
(* files and the command-line loop.                                        *)
(*                                                                         *)
(*   src/src/components/session.rs   Session (transaction log, dispatch    *)
(*                                   tasks, draw-time stream scan),        *)
(*                                   select_model, construct_request,      *)
(*                                   save/load of session files, the       *)
(*                                   last-session pointer, session ids     *)
(*   src/src/session_manager.rs      SessionManager (session files and     *)
(*                                   pointer of the command-line program)  *)
(*   src/src/main.rs                 start-up load, input loop, exit paths *)
(*                                                                         *)
(* Thirteen specifications share the variables:                            *)
(*   Spec          the foreground loop (Session::update) and the spawned   *)
(*                 dispatch tasks talking over the action channel;         *)
(*   SpecStore     Session's public handlers called directly, in any       *)
(*                 order, on a session that starts with an empty log;      *)
(*   SpecResolver  select_model applied to drawn settings and catalogs;    *)
(*   SpecPersist   Session::save_session (in its two file-system steps)    *)
(*                 and load_session_by_id over drawn directories;          *)
(*   SpecPointer   the last-session pointer calls of Session and of        *)
(*                 SessionManager;                                         *)
(*   SpecManager   SessionManager::save_chat_to_session and load_session;  *)
(*   SpecMain      main: start-up, the input loop and its exit paths;      *)
(*   SpecIds       generate_session_id called by two threads against one   *)
(*                 clock;                                                  *)
(*   SpecRetry     one client call under the backoff policy built by       *)
(*                 create_openai_client;                                   *)
(*   SpecDispatch  Spec with a single dispatch at a time, for the          *)
(*                 properties of what a dispatch task sends;               *)
(*   SpecIngest    SessionManager::handle_ingest over drawn directories;   *)
(*   SpecChunker   the chunker applied to drawn texts and limits;          *)
(*   SpecSessions  the session files and the pointer of SessionManager,    *)
(*                 with delete_session.                                    *)
(***************************************************************************)
EXTENDS Naturals, Sequences, FiniteSets, TLC

(***************************************************************************)
(* Bounds of the model.                                                    *)
(***************************************************************************)
\* request_response calls per behaviour (Spec)
MaxDispatch == 2
\* items (fragments or errors) the transport streams yield in all
MaxItems == 2
\* direct handler calls per behaviour (SpecStore)
MaxLog == 4
\* actions waiting in the channel at most
MaxChan == 2

(***************************************************************************)
(* Values.                                                                 *)
(***************************************************************************)
\* Option::None
None == "None"

\* Role::Assistant, Role::User
Assistant == "assistant"
User == "user"

\* session.rs:179  the finish reason the draw scan treats as terminal
STOP == "stop"

\* One streamed chunk (CreateChatCompletionStreamResponse): a list of
\* choices, each a delta {role, content} and an optional finish reason.
StreamChunk(role, content, finish) ==
    [choices |-> << [delta |-> [role |-> role, content |-> content],
                     finish_reason |-> finish] >>]

FragHel == StreamChunk(Assistant, "Hel", None)
FragLo == StreamChunk(None, "lo", None)
FragStop == StreamChunk(None, None, STOP)

\* the chunks handed to the store directly (SpecStore)
Fragments == {FragHel, FragLo, FragStop}

\* the chunks a transport stream yields (Spec)
StreamFragments == {FragHel, FragStop}

\* One complete reply (CreateChatCompletionResponse)
FullResponse ==
    [choices |-> << [message |-> [role |-> Assistant, content |-> "Hello"],
                     finish_reason |-> STOP] >>]

\* results of parse_input (the chunkifier is outside this file): the chunk
\* lists request_response may get back for an input
ChunkResults == { <<"a">>, <<"a", "b">> }

(***************************************************************************)
(* State.                                                                  *)
(***************************************************************************)
VARIABLES
    transactions,   \* Session.transactions: Vec<ChatTransaction>
    config,         \* Session.config: SessionConfig
    chan,           \* the action channel behind Session.action_tx (FIFO)
    tasks,          \* the dispatch tasks request_response has spawned
    prev,           \* history: transactions before the last handler call
    last,           \* history: the last handler call and its argument
    calls,          \* history: the transaction of every handler call
                    \*          (request_response, process_response_handler)
    overlap,        \* history: a request_response was issued while an
                    \*          earlier dispatch was still in flight
    sent,           \* history: the actions each dispatch task has sent,
                    \*          in order (their types)
    settings,       \* select_model: the GPTSettings given
    catalog,        \* select_model: the outcome of client.models().list()
    resolved,       \* select_model: the result
    disk,           \* the files under the sessions directory, by path
    saver,          \* the save_session call in progress (inside fs::write)
    returned,       \* what the last persistence call returned
    recent,         \* history: the last call that saved each last-session
                    \*          pointer, and whether it succeeded
    main,           \* main.rs: where main is, its `messages`, how it ended
    clock,          \* SystemTime::now(), in whole seconds since the epoch
    threads,        \* the threads calling generate_session_id
    transport,      \* one client call under the backoff policy of
                    \*          create_openai_client
    chunker,        \* one call of the chunker: its input and its result
    ingest          \* one call of SessionManager::handle_ingest

vars == << transactions, config, chan, tasks, prev, last, calls, overlap,
           sent, settings, catalog, resolved, disk, saver, returned, recent,
           main, clock, threads, transport, chunker, ingest >>

sessionVars == << transactions, config, chan, tasks, prev, last, calls, overlap, sent >>
resolverVars == << settings, catalog, resolved >>
persistVars == << disk, saver, returned, recent >>
mainVars == << main >>
idVars == << clock, threads >>
toolVars == << transport, chunker, ingest >>

(***************************************************************************)
(* ChatTransaction (the enum of types.rs, used by session.rs:156-172).     *)
(* dispatch and seq record where a transaction came from: the number of    *)
(* the request_response call and the position in its stream. The code      *)
(* reads neither.                                                          *)
(***************************************************************************)
RequestTx(request, d) ==
    [kind |-> "Request", body |-> request, dispatch |-> d, seq |-> 0]

ResponseTx(response, d) ==
    [kind |-> "Response", body |-> response, dispatch |-> d, seq |-> 0]

StreamResponseTx(chunk, d, n) ==
    [kind |-> "StreamResponse", body |-> chunk, dispatch |-> d, seq |-> n]

(***************************************************************************)
(* Action (the messages of the channel).                                   *)
(***************************************************************************)
EnterProcessing(d) == [type |-> "EnterProcessing", dispatch |-> d]
ExitProcessing(d) == [type |-> "ExitProcessing", dispatch |-> d]
ErrorAction(d) == [type |-> "Error", dispatch |-> d]
ProcessResponse(t) == [type |-> "ProcessResponse", dispatch |-> t.dispatch, transaction |-> t]
UpdateAction == [type |-> "Update", dispatch |-> 0]

\* variant: the channel hands out the newest action first
send_front(ch, m) == << m >> \o ch

\* UnboundedSender::send as the code uses it (session.rs:239-271)
send(ch, m) == Append(ch, m)

\* the channel is unbounded; the model explores it up to MaxChan actions
CanSend == Len(chan) < MaxChan

\* stream items yielded so far, over all tasks
RECURSIVE SumYielded(_)
SumYielded(ts) ==
    IF ts = << >> THEN 0 ELSE Head(ts).yielded + SumYielded(Tail(ts))


(***************************************************************************)
(* Request Builder (session.rs:358-387).                                   *)
(***************************************************************************)
\* variant: the chunks are sent newest first
construct_chat_completion_request_message_reversed(chunks) ==
    [i \in 1..Len(chunks) |-> [role |-> User, content |-> chunks[Len(chunks) + 1 - i]]]

\* session.rs:364-367  one user message per chunk
construct_chat_completion_request_message(chunks) ==
    [i \in 1..Len(chunks) |-> [role |-> User, content |-> chunks[i]]]

\* variant: the function block is left out whatever the config says
functions_of_never(cfg) == None

\* session.rs:376-379  the function block (its catalog is an opaque value)
functions_of(cfg) == IF cfg.include_functions THEN "define_commands" ELSE None

\* variant: the request always asks for a one-shot reply
construct_request_one_shot(messages, cfg) ==
    [model |-> cfg.model, messages |-> messages,
     functions |-> functions_of(cfg), stream |-> FALSE]

\* session.rs:371-387
construct_request(messages, cfg) ==
    [model |-> cfg.model, messages |-> messages,
     functions |-> functions_of(cfg), stream |-> cfg.stream_response]

(***************************************************************************)
(* Transaction Store (session.rs:237, 268-272).                            *)
(***************************************************************************)
IsStream(t) == t.kind = "StreamResponse"

\* a streamed transaction that has seen the terminal finish reason
Closed(t) ==
    /\ IsStream(t)
    /\ \E k \in 1..Len(t.body.choices) : t.body.choices[k].finish_reason = STOP

\* the most recent transaction is a streamed one still accepting fragments
HasOpenTarget(log) ==
    /\ log # << >>
    /\ IsStream(log[Len(log)])
    /\ ~Closed(log[Len(log)])

\* a fragment's choices added to a streamed transaction's choice list
fold_into(target, t) == [target EXCEPT !.body.choices = @ \o t.body.choices]

\* variant: a fragment is folded into the open streamed transaction
process_response_handler_fold(log, transaction) ==
    IF IsStream(transaction) /\ HasOpenTarget(log)
    THEN [log EXCEPT ![Len(log)] = fold_into(@, transaction)]
    ELSE Append(log, transaction)

\* variant: a fragment is folded into the last streamed transaction, closed or not
process_response_handler_fold_any(log, transaction) ==
    IF IsStream(transaction) /\ log # << >> /\ IsStream(log[Len(log)])
    THEN [log EXCEPT ![Len(log)] = fold_into(@, transaction)]
    ELSE Append(log, transaction)

\* variant: a transaction takes the place of an open streamed transaction
process_response_handler_replace(log, transaction) ==
    IF HasOpenTarget(log)
    THEN [log EXCEPT ![Len(log)] = transaction]
    ELSE Append(log, transaction)

\* variant: the transaction is inserted at the front of the log
process_response_handler_front(log, transaction) == << transaction >> \o log

\* session.rs:270  self.transactions.push(transaction)
process_response_handler(log, transaction) == Append(log, transaction)

\* session.rs:237  self.transactions.push(ChatTransaction::Request(..))
push_request(log, request, d) == Append(log, RequestTx(request, d))

(***************************************************************************)
(* Models (crate consts used at session.rs:50, 331 and types.rs:95-96).    *)
(***************************************************************************)
GPT4 == [name |-> "gpt-4"]
GPT3_TURBO == [name |-> "gpt-3.5-turbo"]
GPT3_TURBO_16K == [name |-> "gpt-3.5-turbo-16k"]
GPT4_TURBO == [name |-> "gpt-4-turbo"]

\* the models a GPTSettings file may name (types.rs:84-108)
Models == {GPT4, GPT3_TURBO, GPT3_TURBO_16K, GPT4_TURBO}

(***************************************************************************)
(* Initial state: a Session::new() whose action handler is registered      *)
(* (session.rs:93-101, 228-230), before any input.                         *)
(***************************************************************************)
NoCall == [op |-> "none", arg |-> None]

\* the SessionConfig values register_config_handler may install
Configs(include) ==
    [session_id : {"1700000000"}, model : {GPT4},
     include_functions : include, stream_response : BOOLEAN]

InitSession(include) ==
    /\ transactions = << >>
    /\ config \in Configs(include)
    /\ chan = << >>
    /\ tasks = << >>
    /\ prev = << >>
    /\ last = NoCall
    /\ calls = << >>
    /\ overlap = FALSE
    /\ sent = << >>

NoResult == [ok |-> FALSE, pending |-> TRUE]

InitResolverIdle ==
    /\ settings = [default |-> GPT4, fallback |-> GPT3_TURBO_16K]
    /\ catalog = [ok |-> FALSE]
    /\ resolved = NoResult

\* a path with no file behind it
NoFile == [exists |-> FALSE, data |-> << >>]

\* no save_session call is inside fs::write
Idle == [pc |-> "idle"]

\* no persistence call has returned yet
NotCalled == [op |-> "none"]

\* no call has saved a last-session pointer
Never == [saved |-> FALSE]
NeverSaved == [session |-> Never, manager |-> Never]

\* main has not run
NotStarted == [pc |-> "start"]

\* no client call, chunker call or handle_ingest call is under way
InitToolsIdle ==
    /\ transport = Idle
    /\ chunker = Idle
    /\ ingest = Idle

\* the persistence layer, main and the id generator left alone
InitPersistIdle ==
    /\ disk = << >>
    /\ saver = Idle
    /\ returned = NotCalled
    /\ recent = NeverSaved
    /\ main = NotStarted
    /\ clock = 0
    /\ threads = << >>
    /\ InitToolsIdle

Init == InitSession({FALSE}) /\ InitResolverIdle /\ InitPersistIdle

(***************************************************************************)
(* A dispatch is in flight until its task has sent ExitProcessing and the  *)
(* foreground has taken all its messages from the channel.                 *)
(***************************************************************************)
Quiescent(d) ==
    /\ tasks[d].pc = "done"
    /\ \A i \in 1..Len(chan) : chan[i].dispatch # d

InFlight == { d \in 1..Len(tasks) : ~Quiescent(d) }

(***************************************************************************)
(* Session::update(Action::SubmitInput(s)) -> request_response             *)
(* (session.rs:104, 232-266): builds the request, pushes it on the log     *)
(* and spawns the dispatch task.                                           *)
(***************************************************************************)
SubmitInput(chunks) ==
    /\ Len(tasks) < MaxDispatch
    /\ LET d == Len(tasks) + 1
           request == construct_request(
                          construct_chat_completion_request_message(chunks), config)
       IN /\ transactions' = push_request(transactions, request, d)
          /\ tasks' = Append(tasks, [pc |-> "spawned", request |-> request,
                                     stream_response |-> config.stream_response,
                                     yielded |-> 0])
          /\ prev' = transactions
          /\ last' = [op |-> "request_response", arg |-> RequestTx(request, d)]
          /\ calls' = Append(calls, RequestTx(request, d))
          /\ overlap' = (overlap \/ InFlight # {})
          /\ sent' = Append(sent, << >>)
    /\ UNCHANGED << config, chan, resolverVars, persistVars, mainVars, idVars, toolVars >>

(***************************************************************************)
(* Session::update(Action::ProcessResponse(t)) -> process_response_handler *)
(* (session.rs:105, 268-272): pushes and sends Action::Update.             *)
(***************************************************************************)
HandleProcessResponse(t, ch) ==
    /\ transactions' = process_response_handler(transactions, t)
    /\ chan' = send(ch, UpdateAction)
    /\ calls' = Append(calls, t)
    /\ prev' = transactions
    /\ last' = [op |-> "process_response_handler", arg |-> t]

(***************************************************************************)
(* The foreground loop takes the next action off the channel and hands it  *)
(* to Session::update (session.rs:102-109); every action but               *)
(* ProcessResponse falls to `_ => ()`.                                     *)
(***************************************************************************)
Receive ==
    /\ chan # << >>
    /\ LET a == Head(chan)
       IN IF a.type = "ProcessResponse"
          THEN HandleProcessResponse(a.transaction, Tail(chan))
          ELSE /\ chan' = Tail(chan)
               /\ UNCHANGED << transactions, calls, prev, last >>
    /\ UNCHANGED << config, tasks, overlap, sent, resolverVars, persistVars, mainVars, idVars, toolVars >>

(***************************************************************************)
(* The spawned task (session.rs:238-265), one step per send or await.      *)
(***************************************************************************)
SetTask(d, pc, n) == tasks' = [tasks EXCEPT ![d].pc = pc, ![d].yielded = n]

\* session.rs:239-264  tx.send(..) in the task: action m goes into the channel
TaskSend(d, m) ==
    /\ chan' = send(chan, m)
    /\ sent' = [sent EXCEPT ![d] = Append(@, m.type)]

\* session.rs:239  tx.send(Action::EnterProcessing)
TaskEnter(d) ==
    /\ tasks[d].pc = "spawned"
    /\ CanSend
    /\ TaskSend(d, EnterProcessing(d))
    /\ SetTask(d, "request", 0)
    /\ UNCHANGED << transactions, config, prev, last, calls, overlap, resolverVars, persistVars, mainVars, idVars, toolVars >>

\* session.rs:240, 243  create_openai_client().expect / create_stream().unwrap:
\* the stream opens, or the task panics and sends nothing more
TaskOpenStream(d, opened) ==
    /\ tasks[d].pc = "request"
    /\ tasks[d].stream_response
    /\ SetTask(d, IF opened THEN "stream" ELSE "panicked", 0)
    /\ UNCHANGED << transactions, config, chan, sent, prev, last, calls, overlap, resolverVars, persistVars, mainVars, idVars, toolVars >>

\* variant: the task pushes the fragment on the log itself
TaskStreamOk_direct(d, chunk) ==
    /\ tasks[d].pc = "stream"
    /\ SumYielded(tasks) < MaxItems
    /\ transactions' = Append(transactions,
                              StreamResponseTx(chunk, d, tasks[d].yielded + 1))
    /\ SetTask(d, "stream", tasks[d].yielded + 1)
    /\ UNCHANGED << config, chan, sent, prev, last, calls, overlap, resolverVars, persistVars, mainVars, idVars, toolVars >>

\* session.rs:244-248  stream.next() yields Ok(response)
TaskStreamOk(d, chunk) ==
    /\ tasks[d].pc = "stream"
    /\ SumYielded(tasks) < MaxItems
    /\ CanSend
    /\ TaskSend(d, ProcessResponse(
                        StreamResponseTx(chunk, d, tasks[d].yielded + 1)))
    /\ SetTask(d, "stream", tasks[d].yielded + 1)
    /\ UNCHANGED << transactions, config, prev, last, calls, overlap, resolverVars, persistVars, mainVars, idVars, toolVars >>

\* variant: an error result of the stream is logged and dropped
TaskStreamErr_swallowed(d) ==
    /\ tasks[d].pc = "stream"
    /\ SumYielded(tasks) < MaxItems
    /\ SetTask(d, "stream", tasks[d].yielded + 1)
    /\ UNCHANGED << transactions, config, chan, sent, prev, last, calls, overlap, resolverVars, persistVars, mainVars, idVars, toolVars >>

\* session.rs:249-252  stream.next() yields Err(e)
TaskStreamErr(d) ==
    /\ tasks[d].pc = "stream"
    /\ SumYielded(tasks) < MaxItems
    /\ CanSend
    /\ TaskSend(d, ErrorAction(d))
    /\ SetTask(d, "stream", tasks[d].yielded + 1)
    /\ UNCHANGED << transactions, config, prev, last, calls, overlap, resolverVars, persistVars, mainVars, idVars, toolVars >>

\* variant: ExitProcessing is sent while the stream is still being read
TaskStreamEnd_early(d) ==
    /\ tasks[d].pc = "stream"
    /\ CanSend
    /\ TaskSend(d, ExitProcessing(d))
    /\ SetTask(d, "stream", tasks[d].yielded)
    /\ UNCHANGED << transactions, config, prev, last, calls, overlap, resolverVars, persistVars, mainVars, idVars, toolVars >>

\* session.rs:244, 264  stream.next() yields None: the loop ends and the task
\* sends ExitProcessing (nothing is awaited in between)
TaskStreamEnd(d) ==
    /\ tasks[d].pc = "stream"
    /\ CanSend
    /\ TaskSend(d, ExitProcessing(d))
    /\ SetTask(d, "done", tasks[d].yielded)
    /\ UNCHANGED << transactions, config, prev, last, calls, overlap, resolverVars, persistVars, mainVars, idVars, toolVars >>

\* session.rs:240, 256-262  the one-shot call: Ok(response), Err(e), or the
\* client cannot be created and the task panics
TaskCreate(d, outcome) ==
    /\ tasks[d].pc = "request"
    /\ ~tasks[d].stream_response
    /\ CanSend
    /\ CASE outcome = "ok" ->
              /\ TaskSend(d, ProcessResponse(ResponseTx(FullResponse, d)))
              /\ SetTask(d, "exit", 0)
         [] outcome = "err" ->
              /\ TaskSend(d, ErrorAction(d))
              /\ SetTask(d, "exit", 0)
         [] OTHER ->
              /\ UNCHANGED << chan, sent >>
              /\ SetTask(d, "panicked", 0)
    /\ UNCHANGED << transactions, config, prev, last, calls, overlap, resolverVars, persistVars, mainVars, idVars, toolVars >>

\* session.rs:264  tx.send(Action::ExitProcessing)
TaskExit(d) ==
    /\ tasks[d].pc = "exit"
    /\ CanSend
    /\ TaskSend(d, ExitProcessing(d))
    /\ SetTask(d, "done", tasks[d].yielded)
    /\ UNCHANGED << transactions, config, prev, last, calls, overlap, resolverVars, persistVars, mainVars, idVars, toolVars >>

Next ==
    \/ SubmitInput(<<"a">>)
    \/ Receive
    \/ \E d \in 1..Len(tasks) : TaskEnter(d)
    \/ \E d \in 1..Len(tasks), opened \in BOOLEAN : TaskOpenStream(d, opened)
    \/ \E d \in 1..Len(tasks), chunk \in StreamFragments : TaskStreamOk(d, chunk)
    \/ \E d \in 1..Len(tasks) : TaskStreamErr(d)
    \/ \E d \in 1..Len(tasks) : TaskStreamEnd(d)
    \/ \E d \in 1..Len(tasks), outcome \in {"ok", "err", "panic"} : TaskCreate(d, outcome)
    \/ \E d \in 1..Len(tasks) : TaskExit(d)

Spec == Init /\ [][Next]_vars

(***************************************************************************)
(* SpecStore: the handlers called directly, as a caller holding the        *)
(* Session may (both are pub): request_response through update, and        *)
(* process_response_handler with any transaction.                          *)
(***************************************************************************)
\* the transactions a caller hands to process_response_handler
FeedSet ==
    { StreamResponseTx(f, 0, 0) : f \in Fragments } \cup { ResponseTx(FullResponse, 0) }

\* session.rs:268-272 called with transaction t
CallProcessResponse(t) ==
    /\ Len(calls) < MaxLog
    /\ HandleProcessResponse(t, chan)
    /\ UNCHANGED << config, tasks, overlap, sent, resolverVars, persistVars, mainVars, idVars, toolVars >>

InitStore == InitSession(BOOLEAN) /\ InitResolverIdle /\ InitPersistIdle

NextStore ==
    \/ \E chunks \in ChunkResults : SubmitInput(chunks)
    \/ \E t \in FeedSet : CallProcessResponse(t)

SpecStore == InitStore /\ [][NextStore]_vars

(***************************************************************************)
(* Session::draw, the StreamResponse arm (session.rs:172-197): the text    *)
(* and role shown for the streamed reply that starts at a transaction.     *)
(***************************************************************************)
\* session.rs:177-183  the choices of one chunk, from choice k on:
\* push each delta, stop after a choice whose finish reason is "stop"
RECURSIVE scan_choices(_, _)
scan_choices(choices, k) ==
    IF k > Len(choices) THEN [deltas |-> << >>, finished |-> FALSE]
    ELSE IF choices[k].finish_reason = STOP
         THEN [deltas |-> << choices[k].delta >>, finished |-> TRUE]
         ELSE LET rest == scan_choices(choices, k + 1)
              IN [deltas |-> << choices[k].delta >> \o rest.deltas,
                  finished |-> rest.finished]

\* session.rs:175-188  self.transactions.iter().skip(index): the deltas of
\* every StreamResponse from position i on, up to the first "stop"
RECURSIVE scan_deltas(_, _)
scan_deltas(log, i) ==
    IF i > Len(log) THEN [deltas |-> << >>, finished |-> FALSE]
    ELSE IF log[i].kind = "StreamResponse"
         THEN LET here == scan_choices(log[i].body.choices, 1)
              IN IF here.finished THEN here
                 ELSE LET rest == scan_deltas(log, i + 1)
                      IN [deltas |-> here.deltas \o rest.deltas,
                          finished |-> rest.finished]
         ELSE scan_deltas(log, i + 1)

\* session.rs:193-195  transaction_text = content, for each delta with content
RECURSIVE fold_text(_, _)
fold_text(deltas, text) ==
    IF deltas = << >> THEN text
    ELSE fold_text(Tail(deltas),
                   IF Head(deltas).content # None THEN Head(deltas).content ELSE text)

\* session.rs:190-192  style = get_style_from_role(role), for each delta with a role
RECURSIVE fold_role(_, _)
fold_role(deltas, role) ==
    IF deltas = << >> THEN role
    ELSE fold_role(Tail(deltas),
                   IF Head(deltas).role # None THEN Head(deltas).role ELSE role)

\* session.rs:172-197  what draw shows for the StreamResponse at position i
draw_stream(log, i) ==
    LET scan == scan_deltas(log, i)
    IN [text |-> fold_text(scan.deltas, ""),
        role |-> fold_role(scan.deltas, None),
        finished |-> scan.finished]

(***************************************************************************)
(* Model Resolver: select_model (session.rs:325-347).                      *)
(***************************************************************************)
\* Result<Model, GPTConnectorError>
Ok(model) == [ok |-> TRUE, model |-> model]

\* GPTConnectorError::Other(message): the message is a literal, with no
\* value formatted into it (args is what a format! would have interpolated)
ErrOther(message) ==
    [ok |-> FALSE, error |-> [variant |-> "Other", message |-> message, args |-> << >>]]

\* session.rs:342
NEITHER_ACCESSIBLE == "Neither the default nor the fallback model is accessible."
\* session.rs:345
FETCH_FAILED == "Failed to fetch the list of available models."

\* session.rs:331
available_models == [default |-> GPT4, fallback |-> GPT3_TURBO]

\* variant: the last branch falls back to a model instead of failing
select_model_lenient(s, models_response) ==
    IF models_response.ok
    THEN IF s.default.name \in models_response.ids
         THEN Ok(available_models.default)
         ELSE Ok(available_models.fallback)
    ELSE ErrOther(FETCH_FAILED)

\* session.rs:325-347; models_response is the outcome of client.models().list()
select_model(s, models_response) ==
    IF models_response.ok
    THEN LET model_names == models_response.ids
         IN IF s.default.name \in model_names
            THEN Ok(available_models.default)
            ELSE IF s.fallback.name \in model_names
                 THEN Ok(available_models.fallback)
                 ELSE ErrOther(NEITHER_ACCESSIBLE)
    ELSE ErrOther(FETCH_FAILED)

\* the catalogs the listing endpoint may answer with, or its failure
Catalogs ==
    { [ok |-> TRUE, ids |-> ids] : ids \in SUBSET { m.name : m \in Models } }
        \cup { [ok |-> FALSE] }

InitResolver ==
    /\ InitSession({FALSE})
    /\ InitPersistIdle
    /\ settings \in [default : Models, fallback : Models]
    /\ catalog \in Catalogs
    /\ resolved = NoResult

\* the one call of select_model
SelectModel ==
    /\ resolved = NoResult
    /\ resolved' = select_model(settings, catalog)
    /\ UNCHANGED << sessionVars, settings, catalog, persistVars, mainVars, idVars, toolVars >>

NextResolver == SelectModel

SpecResolver == InitResolver /\ [][NextResolver]_vars

(***************************************************************************)
(* Properties.                                                             *)
(***************************************************************************)
Handled == last.op = "process_response_handler"
Requested == last.op = "request_response"

\* log is an initial part of log2
IsPrefix(log, log2) ==
    /\ Len(log) <= Len(log2)
    /\ \A i \in 1..Len(log) : log2[i] = log[i]

\* the dispatch tasks that have neither finished nor died
Running == { d \in 1..Len(tasks) : tasks[d].pc \notin {"done", "panicked"} }

\* no transaction of one dispatch lies between two of another
NotInterleaved(log) ==
    \A i, j, k \in 1..Len(log) :
        (i < j /\ j < k /\ log[i].dispatch = log[k].dispatch)
            => log[j].dispatch = log[i].dispatch

C2_FoldingLaw ==
    calls = << StreamResponseTx(FragHel, 0, 0), StreamResponseTx(FragLo, 0, 0),
               StreamResponseTx(FragStop, 0, 0) >>
        => /\ Len(transactions) = 1
           /\ Closed(transactions[1])
           /\ draw_stream(transactions, 1).text = "Hello"
           /\ draw_stream(transactions, 1).role = Assistant

\* C3: a StreamResponse transaction that holds the terminal finish reason is
\* never changed by a later fragment, and a fragment handled when the most
\* recent transaction is closed becomes a new transaction right after it.
C3_ClosedIsFinal ==
    (Handled /\ IsStream(last.arg)) =>
        /\ \A i \in 1..Len(prev) :
               Closed(prev[i]) => (i <= Len(transactions) /\ transactions[i] = prev[i])
        /\ (prev # << >> /\ Closed(prev[Len(prev)]))
               => transactions = Append(prev, last.arg)

\* C3: a fragment was handled after the most recent transaction had closed
C3_Witness ==
    /\ Handled
    /\ IsStream(last.arg)
    /\ prev # << >>
    /\ Closed(prev[Len(prev)])
    /\ transactions[Len(prev)] = prev[Len(prev)]

\* C4: when every request_response was issued with no earlier dispatch in
\* flight, the log is in call order: the transactions of an earlier dispatch
\* all come before those of a later one, and within a dispatch the Request
\* comes first.
C4_SequentialOrder ==
    ~overlap =>
        \A i, j \in 1..Len(transactions) :
            i < j =>
                /\ transactions[i].dispatch <= transactions[j].dispatch
                /\ (transactions[i].dispatch = transactions[j].dispatch
                        => transactions[j].kind # "Request")

\* C4: two dispatches, one after the other, each with a reply in the log
C4_Witness ==
    /\ ~overlap
    /\ Len(tasks) = 2
    /\ \E i, j \in 1..Len(transactions) :
           /\ transactions[i].kind # "Request" /\ transactions[i].dispatch = 1
           /\ transactions[j].kind # "Request" /\ transactions[j].dispatch = 2

\* C5: the log is append-only: every step leaves each transaction already
\* in the log in place, unchanged, at the same index.
C5_AppendOnly == [][IsPrefix(transactions, transactions')]_vars

\* C5: a handler ran on a log that already held a Request and a reply
C5_Witness ==
    /\ Len(transactions) >= 3
    /\ Handled
    /\ \E i \in 1..Len(prev) : prev[i].kind = "Request"
    /\ \E i \in 1..Len(prev) : prev[i].kind # "Request"

\* C6: a Request through request_response and a Response through
\* process_response_handler each become one new transaction at the end of
\* the log, also when the most recent transaction is an open StreamResponse.
C6_AlwaysAppended ==
    /\ Requested =>
           (last.arg.kind = "Request" /\ transactions = Append(prev, last.arg))
    /\ (Handled /\ last.arg.kind = "Response") =>
           transactions = Append(prev, last.arg)

\* C6: a Response was handled while the most recent transaction was an
\* open StreamResponse
C6_Witness ==
    /\ Handled
    /\ last.arg.kind = "Response"
    /\ HasOpenTarget(prev)
    /\ \E i \in 1..Len(prev) : prev[i].kind = "Request"

\* C7: the fragments of one dispatch are handed to process_response_handler
\* in the order the stream yielded them.
C7_StreamOrder ==
    \A i, j \in 1..Len(calls) :
        (/\ i < j
         /\ IsStream(calls[i]) /\ IsStream(calls[j])
         /\ calls[i].dispatch = calls[j].dispatch)
            => calls[i].seq < calls[j].seq

\* C7: two consecutive fragments of one stream were handled
C7_Witness ==
    \E i, j \in 1..Len(calls) :
        /\ i < j
        /\ IsStream(calls[i]) /\ IsStream(calls[j])
        /\ calls[i].dispatch = calls[j].dispatch
        /\ calls[i].seq + 1 = calls[j].seq

\* C8 as stated: at most one dispatch task is running at any time, and the
\* fragments of two dispatches are never interleaved in the log.
C8_SingleInFlight ==
    /\ Cardinality(Running) <= 1
    /\ NotInterleaved(transactions)

\* C8 amended: request_response starts a task whenever it is called; when
\* the caller issues each request_response only after the earlier dispatch
\* has sent ExitProcessing and its messages were handled, at most one
\* dispatch task is running and the log is not interleaved.
C8_SerializedCallers ==
    ~overlap => (Cardinality(Running) <= 1 /\ NotInterleaved(transactions))

\* C8: a second dispatch is streaming after the first one finished
C8_Witness ==
    /\ ~overlap
    /\ Running = {2}
    /\ tasks[2].yielded > 0
    /\ \E i \in 1..Len(transactions) :
           transactions[i].dispatch = 1 /\ transactions[i].kind # "Request"

\* C9 as stated: the resolver returns the configured default when its name
\* is in the catalog, the configured fallback when only the fallback's name
\* is, and never a model whose name is not in the catalog.
C9_ResolutionPrecedence ==
    (resolved # NoResult /\ catalog.ok) =>
        /\ settings.default.name \in catalog.ids
               => resolved = Ok(settings.default)
        /\ (settings.default.name \notin catalog.ids
                /\ settings.fallback.name \in catalog.ids)
               => resolved = Ok(settings.fallback)
        /\ resolved.ok => resolved.model.name \in catalog.ids

\* the names an error carries
Mentions(error) == { error.args[i] : i \in 1..Len(error.args) }

NeitherListed ==
    /\ catalog.ok
    /\ settings.default.name \notin catalog.ids
    /\ settings.fallback.name \notin catalog.ids

UnavailableError == ErrOther(NEITHER_ACCESSIBLE).error

CatalogEmptyOrUnreachable == ~catalog.ok \/ catalog.ids = {}

\* C11 as stated: with an empty or unreachable catalog, resolution fails with
\* an error that differs from the one given when neither model is listed.
C11_CatalogFailureDistinct ==
    (resolved # NoResult /\ CatalogEmptyOrUnreachable) =>
        /\ ~resolved.ok
        /\ resolved.error # UnavailableError

(***************************************************************************)
(* Session Persistence (session.rs:274-322): one file per session under    *)
(* SESSIONS_DIR, named by the session id, and last_session.txt holding     *)
(* the id of the last session.                                             *)
(***************************************************************************)
\* the session ids of the model
Ids == {"1700000000", "1700000001"}

\* crate const used at session.rs:287, 295
SESSIONS_DIR == "SESSIONS_DIR"

\* a file and its content, a text in parts
File(data) == [exists |-> TRUE, data |-> data]

\* the text of a file made of strings, as one String
RECURSIVE concat(_)
concat(parts) == IF parts = << >> THEN "" ELSE Head(parts) \o concat(Tail(parts))

\* session.rs:290-292  format!("{}.json", session_id)
get_session_filename(session_id) == session_id \o ".json"

\* session.rs:286-288  Path::new(SESSIONS_DIR).join(filename)
get_session_filepath(session_id) == << SESSIONS_DIR, get_session_filename(session_id) >>

\* session.rs:296, 305, 320  Path::new(SESSIONS_DIR).join("last_session.txt")
last_session_path == << SESSIONS_DIR, "last_session.txt" >>

SessionPaths == { get_session_filepath(id) : id \in Ids }
Paths == SessionPaths \cup { last_session_path }

\* session.rs:69-73  the serialized form of `transactions`: the variant
\* and payload of every ChatTransaction, in order
entries(log) == [i \in 1..Len(log) |-> [kind |-> log[i].kind, body |-> log[i].body]]

\* variant: the config is not written (as if it were #[serde(skip)])
to_string_skip_config(session) ==
    << [key |-> "transactions", value |-> entries(session.transactions)] >>

\* session.rs:313  serde_json::to_string(&self) with the derive of
\* session.rs:69-87, 37-43: the members `transactions` and `config`, in
\* this order; the #[serde(skip)] fields are not written
to_string(session) ==
    << [key |-> "transactions", value |-> entries(session.transactions)],
       [key |-> "config",
        value |-> << session.config.session_id, session.config.model,
                     session.config.include_functions,
                     session.config.stream_response >>] >>

\* text that is no Session
Garbage == << [key |-> "garbage", value |-> << >>] >>

\* a file whose bytes are no UTF-8 text
BinaryFile == [exists |-> TRUE, binary |-> TRUE, data |-> << >>]

\* session.rs:279  serde_json::from_str::<Session>: both members must be
\* there; the skipped fields take their defaults
from_str(data) ==
    IF /\ Len(data) = 2
       /\ data[1].key = "transactions"
       /\ data[2].key = "config"
       /\ Len(data[2].value) = 4
    THEN [ok |-> TRUE,
          session |-> [transactions |-> data[1].value,
                       config |-> [session_id |-> data[2].value[1],
                                   model |-> data[2].value[2],
                                   include_functions |-> data[2].value[3],
                                   stream_response |-> data[2].value[4]]]]
    ELSE [ok |-> FALSE]

\* fs::read_to_string: fails on a missing file and on non-UTF-8 content
read_to_string(file) ==
    IF file.exists /\ "binary" \notin DOMAIN file
    THEN [ok |-> TRUE, data |-> file.data]
    ELSE [ok |-> FALSE]

\* session.rs:46-55, 88-90  Session::new(): an empty log and the default
\* config, whose id generate_session_id has just made
new_session(new_id) ==
    [transactions |-> << >>,
     config |-> [session_id |-> new_id, model |-> GPT4,
                 include_functions |-> FALSE, stream_response |-> TRUE]]

\* the file at a path; the model keeps the paths it writes, no other path
\* has a file
file_at(d, path) == IF path \in DOMAIN d THEN d[path] ELSE NoFile

\* session.rs:274-284
load_session_by_id(d, session_id, new_id) ==
    LET load_result == read_to_string(file_at(d, get_session_filepath(session_id)))
    IN IF load_result.ok
       THEN IF from_str(load_result.data).ok
            THEN [result |-> "session", session |-> from_str(load_result.data).session]
            ELSE [result |-> "panic"]
       ELSE [result |-> "session", session |-> new_session(new_id)]

\* the Session in memory (its serialized fields)
self == [transactions |-> transactions, config |-> config]

\* session.rs:310-314  save_session up to File::create inside fs::write:
\* ensure_directory_exists(..).unwrap(), to_string(..)?, then the file is
\* created or truncated
SaveSessionBegin(dir_ok, ser_ok, create_ok) ==
    /\ saver = Idle
    /\ LET path == get_session_filepath(config.session_id)
           failed(result, step) ==
               /\ returned' = [op |-> "save_session", arg |-> config.session_id,
                               result |-> result, step |-> step]
               /\ UNCHANGED << disk, saver >>
       IN IF ~dir_ok THEN failed("panic", "ensure_directory_exists")
          ELSE IF ~ser_ok THEN failed("err", "to_string")
          ELSE IF ~create_ok THEN failed("err", "write")
          ELSE /\ disk' = [disk EXCEPT ![path] = File(<< >>)]
               /\ saver' = [pc |-> "writing", path |-> path,
                            data |-> to_string(self), old |-> disk[path]]
               /\ returned' = [op |-> "save_session", arg |-> config.session_id,
                               result |-> "running", step |-> "write"]
    /\ UNCHANGED << sessionVars, resolverVars, mainVars, idVars, toolVars, recent >>

\* variant: the result of fs::write is dropped and Ok(()) returned
SaveSessionWrite_unchecked(n) ==
    /\ saver.pc = "writing"
    /\ disk' = [disk EXCEPT ![saver.path] = File(SubSeq(saver.data, 1, n))]
    /\ saver' = Idle
    /\ returned' = [op |-> "save_session", arg |-> config.session_id,
                    result |-> "ok", step |-> ""]
    /\ UNCHANGED << sessionVars, resolverVars, mainVars, idVars, toolVars, recent >>

\* session.rs:314-315  write_all inside fs::write: all of the text reaches
\* the file (n = Len), or the write fails after n parts of it
SaveSessionWrite(n) ==
    /\ saver.pc = "writing"
    /\ disk' = [disk EXCEPT ![saver.path] = File(SubSeq(saver.data, 1, n))]
    /\ saver' = Idle
    /\ returned' = [op |-> "save_session", arg |-> config.session_id,
                    result |-> IF n = Len(saver.data) THEN "ok" ELSE "err",
                    step |-> IF n = Len(saver.data) THEN "" ELSE "write"]
    /\ UNCHANGED << sessionVars, resolverVars, mainVars, idVars, toolVars, recent >>

\* the process is stopped inside fs::write, n parts of the text written
SaveSessionInterrupted(n) ==
    /\ saver.pc = "writing"
    /\ disk' = [disk EXCEPT ![saver.path] = File(SubSeq(saver.data, 1, n))]
    /\ saver' = Idle
    /\ returned' = [op |-> "save_session", arg |-> config.session_id,
                    result |-> "interrupted", step |-> "write",
                    old |-> saver.old]
    /\ UNCHANGED << sessionVars, resolverVars, mainVars, idVars, toolVars, recent >>

\* Session::load_session_by_id(session_id) called by any reader, also while
\* a save is inside fs::write
LoadSessionById(session_id, new_id) ==
    /\ returned' =
           [op |-> "load_session_by_id", arg |-> session_id,
            seen |-> disk[get_session_filepath(session_id)],
            during |-> (saver.pc = "writing"
                            /\ saver.path = get_session_filepath(session_id)),
            after_save |-> (/\ returned.op = "save_session"
                            /\ returned.result = "ok"
                            /\ returned.arg = session_id)]
               @@ load_session_by_id(disk, session_id, new_id)
    /\ UNCHANGED << sessionVars, resolverVars, mainVars, idVars, toolVars, disk, saver, recent >>

\* fs::write(path, text) in three outcomes: all of the text is written,
\* the file cannot be created (and stays as it was), or the file is
\* created or truncated and the write fails
fs_write(d, path, text, written) ==
    CASE written = "all" -> [d EXCEPT ![path] = File(text)]
      [] written = "truncated" -> [d EXCEPT ![path] = File(<< >>)]
      [] OTHER -> d

WriteOutcomes == {"all", "truncated", "none"}

\* variant: the pointer file gets the name of the session file
SaveLastSessionId_filename(session, dir_ok, written) ==
    /\ disk' = IF dir_ok
               THEN fs_write(disk, last_session_path,
                             << get_session_filename(session.config.session_id) >>, written)
               ELSE disk
    /\ returned' = [op |-> "save_last_session_id", arg |-> session.config.session_id,
                    result |-> IF dir_ok /\ written = "all" THEN "ok" ELSE "panic"]
    /\ recent' = [recent EXCEPT !.session =
                      [saved |-> TRUE, id |-> session.config.session_id,
                       ok |-> dir_ok /\ written = "all"]]
    /\ UNCHANGED << sessionVars, resolverVars, mainVars, idVars, toolVars, saver >>

\* session.rs:318-322  save_last_session_id on a Session: both steps are
\* unwrapped
SaveLastSessionId(session, dir_ok, written) ==
    /\ disk' = IF dir_ok
               THEN fs_write(disk, last_session_path,
                             << session.config.session_id >>, written)
               ELSE disk
    /\ returned' = [op |-> "save_last_session_id", arg |-> session.config.session_id,
                    result |-> IF dir_ok /\ written = "all" THEN "ok" ELSE "panic"]
    /\ recent' = [recent EXCEPT !.session =
                      [saved |-> TRUE, id |-> session.config.session_id,
                       ok |-> dir_ok /\ written = "all"]]
    /\ UNCHANGED << sessionVars, resolverVars, mainVars, idVars, toolVars, saver >>

\* session.rs:294-302  get_last_session_file_path
GetLastSessionFilePath(dir_ok) ==
    /\ returned' =
           [op |-> "get_last_session_file_path", dir_ok |-> dir_ok] @@
               (IF ~dir_ok THEN [result |-> "panic"]
                ELSE IF disk[last_session_path].exists
                     THEN [result |-> "some",
                           value |-> concat(disk[last_session_path].data)]
                     ELSE [result |-> "none"])
    /\ UNCHANGED << sessionVars, resolverVars, mainVars, idVars, toolVars, disk, saver, recent >>

\* session.rs:304-308  load_last_session: read_to_string(..).unwrap(), then
\* load_session_by_id with the text read
LoadLastSession(new_id) ==
    /\ returned' =
           IF disk[last_session_path].exists
           THEN [op |-> "load_last_session",
                 arg |-> concat(disk[last_session_path].data)]
                    @@ load_session_by_id(disk, concat(disk[last_session_path].data),
                                          new_id)
           ELSE [op |-> "load_last_session", result |-> "panic"]
    /\ UNCHANGED << sessionVars, resolverVars, mainVars, idVars, toolVars, disk, saver, recent >>

\* the logs of the sessions the model saves: empty, a one-shot exchange, a
\* finished stream, and a stream still open
StoredRequest == RequestTx(construct_request(
                     construct_chat_completion_request_message(<< "a" >>),
                     new_session("1").config), 0)

StoredLogs ==
    { << >>,
      << StoredRequest, ResponseTx(FullResponse, 0) >>,
      << StoredRequest, StreamResponseTx(FragHel, 0, 1), StreamResponseTx(FragStop, 0, 2) >>,
      << StoredRequest, StreamResponseTx(FragHel, 0, 1) >> }

StoredConfigs ==
    [session_id : Ids, model : {GPT4, GPT3_TURBO},
     include_functions : {FALSE}, stream_response : BOOLEAN]

\* what an earlier run left in the file of session id
OldSession(id) ==
    [transactions |-> << StoredRequest >>,
     config |-> [new_session(id).config EXCEPT !.stream_response = FALSE]]

\* the sessions directory before the run: each session file is missing,
\* holds an earlier session, other text, or bytes that are no text; the
\* pointer is missing or names a session
InitialDisks(kinds, pointers) ==
    { [p \in Paths |->
          IF p = last_session_path THEN ptr
          ELSE LET id == CHOOSE i \in Ids : get_session_filepath(i) = p
               IN CASE kind[id] = "absent" -> NoFile
                    [] kind[id] = "stored" -> File(to_string(OldSession(id)))
                    [] kind[id] = "garbage" -> File(Garbage)
                    [] OTHER -> BinaryFile] :
        kind \in [Ids -> kinds], ptr \in pointers }

\* a Session in memory and the files of disks, before any persistence call
InitStored(logs, configs, disks) ==
    /\ transactions \in logs
    /\ config \in configs
    /\ chan = << >>
    /\ tasks = << >>
    /\ prev = << >>
    /\ last = NoCall
    /\ calls = << >>
    /\ overlap = FALSE
    /\ sent = << >>
    /\ InitResolverIdle
    /\ disk \in disks
    /\ saver = Idle
    /\ returned = NotCalled
    /\ recent = NeverSaved
    /\ main = NotStarted
    /\ clock = 0
    /\ threads = << >>
    /\ InitToolsIdle

InitPersist ==
    InitStored(StoredLogs, StoredConfigs,
               InitialDisks({"absent", "stored", "garbage", "binary"}, {NoFile}))

\* how much of its text a save inside fs::write may have written
Written(s) == IF s = Idle THEN {} ELSE 0..Len(s.data)

\* the same, short of all of it
Unfinished(s) == IF s = Idle THEN {} ELSE 0..(Len(s.data) - 1)

NextPersist ==
    \/ \E dir_ok, ser_ok, create_ok \in BOOLEAN : SaveSessionBegin(dir_ok, ser_ok, create_ok)
    \/ \E n \in Written(saver) : SaveSessionWrite(n)
    \/ \E n \in Unfinished(saver) : SaveSessionInterrupted(n)
    \/ \E id \in Ids, new_id \in Ids : LoadSessionById(id, new_id)

SpecPersist == InitPersist /\ [][NextPersist]_vars

(***************************************************************************)
(* Properties of Session Persistence.                                      *)
(***************************************************************************)
Loaded == returned.op = "load_session_by_id"

\* a file whose content is a serialized Session
Deserializes(file) ==
    /\ read_to_string(file).ok
    /\ from_str(read_to_string(file).data).ok

\* C13 as stated: load_session_by_id on a file that exists and does not
\* deserialize to a Session returns a new Session with an empty log.
C13_CorruptLoadsFresh ==
    (Loaded /\ returned.seen.exists /\ ~Deserializes(returned.seen)) =>
        /\ returned.result = "session"
        /\ returned.session.transactions = << >>

\* C14: load_session_by_id(config.session_id) right after a save_session
\* that returned Ok, for a log with no open streamed transaction, returns a
\* Session with the same entries in the same order and the same config.
C14_RoundTrip ==
    (/\ Loaded
     /\ returned.after_save
     /\ returned.arg = config.session_id
     /\ ~HasOpenTarget(transactions)) =>
        /\ returned.result = "session"
        /\ returned.session.transactions = entries(transactions)
        /\ returned.session.config = config

\* C14: a finished stream and a config that is not the default one were
\* saved over another session's file and loaded back
C14_Witness ==
    /\ Loaded
    /\ returned.after_save
    /\ returned.arg = config.session_id
    /\ Len(transactions) = 3
    /\ Closed(transactions[3])
    /\ config # new_session(config.session_id).config
    /\ returned.result = "session"

\* C17 as stated: a load running while save_session writes the same file
\* sees the complete previous content or the complete new content, and a
\* save stopped midway leaves the previous content in place.
C17_TransactionalReplace ==
    /\ (Loaded /\ returned.during) =>
           \/ returned.seen = saver.old
           \/ returned.seen = File(saver.data)
    /\ (returned.op = "save_session" /\ returned.result = "interrupted") =>
           disk[get_session_filepath(returned.arg)] = returned.old

(***************************************************************************)
(* SessionManager (session_manager.rs:48-175): sessions kept as files      *)
(* under base_dir/session_data, and its own last_session.txt.              *)
(***************************************************************************)
\* main.rs:37  SessionManager::new(PathBuf::from("./"))
BASE_DIR == "./"

\* session_manager.rs:67-76  new_session_filename: minute, four random
\* alphanumerics, ".json"
Filenames == {"202311050930_a1B2.json", "202311050931_Zz9k.json"}

\* session_manager.rs:142, 170  base_dir.join("session_data").join(filename)
session_data_path(filename) == << BASE_DIR, "session_data", filename >>

\* session_manager.rs:150, 161  base_dir.join("session_data/last_session.txt")
manager_last_session_path == session_data_path("last_session.txt")

\* session_manager.rs:147-155  load_last_session_filename; dir_ok: the
\* directory is there or can be made (59-64, expect)
load_last_session_filename(d, dir_ok) ==
    IF ~dir_ok THEN [result |-> "panic"]
    ELSE IF read_to_string(d[manager_last_session_path]).ok
         THEN [result |-> "some",
               value |-> concat(read_to_string(d[manager_last_session_path]).data)]
         ELSE [result |-> "none"]

\* session_manager.rs:158-165  save_last_session_filename: the files after
\* the call and what it returns
save_last_session_filename(d, filename, dir_ok, written) ==
    IF ~dir_ok THEN [disk |-> d, result |-> "panic"]
    ELSE [disk |-> fs_write(d, manager_last_session_path, << filename >>, written),
          result |-> IF written = "all" THEN "ok" ELSE "err"]

\* SessionManager::load_last_session_filename called
ManagerLoadLastSessionFilename(dir_ok) ==
    /\ returned' = [op |-> "load_last_session_filename", dir_ok |-> dir_ok]
                       @@ load_last_session_filename(disk, dir_ok)
    /\ UNCHANGED << sessionVars, resolverVars, mainVars, idVars, toolVars, disk, saver, recent >>

\* SessionManager::save_last_session_filename(filename) called
ManagerSaveLastSessionFilename(filename, dir_ok, written) ==
    LET call == save_last_session_filename(disk, filename, dir_ok, written)
    IN /\ disk' = call.disk
       /\ returned' = [op |-> "save_last_session_filename", arg |-> filename,
                       result |-> call.result]
       /\ recent' = [recent EXCEPT !.manager =
                        [saved |-> TRUE, id |-> filename, ok |-> call.result = "ok"]]
       /\ UNCHANGED << sessionVars, resolverVars, mainVars, idVars, toolVars, saver >>

(***************************************************************************)
(* SpecPointer: the calls that save and load a last-session pointer, of    *)
(* Session and of SessionManager, in any order, starting where no pointer  *)
(* has been saved.                                                         *)
(***************************************************************************)
InitPointer ==
    InitStored({<< >>}, {new_session(id).config : id \in Ids},
               { d @@ (manager_last_session_path :> NoFile) :
                     d \in InitialDisks({"absent", "stored"}, {NoFile}) })

NextPointer ==
    \/ \E id \in Ids, dir_ok \in BOOLEAN, written \in WriteOutcomes :
           SaveLastSessionId(new_session(id), dir_ok, written)
    \/ \E dir_ok \in BOOLEAN : GetLastSessionFilePath(dir_ok)
    \/ \E new_id \in Ids : LoadLastSession(new_id)
    \/ \E filename \in Filenames, dir_ok \in BOOLEAN, written \in WriteOutcomes :
           ManagerSaveLastSessionFilename(filename, dir_ok, written)
    \/ \E dir_ok \in BOOLEAN : ManagerLoadLastSessionFilename(dir_ok)

SpecPointer == InitPointer /\ [][NextPointer]_vars

(***************************************************************************)
(* Properties of the last-session pointers.                                *)
(***************************************************************************)
SessionRead == returned.op = "get_last_session_file_path"
ManagerRead == returned.op = "load_last_session_filename"

\* what a pointer load must return after the save calls summed up in saves
ReturnsLast(saves) ==
    IF saves.saved
    THEN returned.result = "some" /\ returned.value = saves.id
    ELSE returned.result = "none"

ReturnsLastSaved(saves) ==
    /\ (saves.saved /\ saves.ok) =>
           returned.result = "some" /\ returned.value = saves.id
    /\ ~saves.saved => returned.result = "none"

System == "system"

\* a line "role: message", the format load_session reads (97)
role_line(message) == << message.role, ":", " ", message.content >>

\* Option<CreateChatCompletionResponse> (session_manager.rs:126)
Responses == { [some |-> FALSE], [some |-> TRUE, value |-> FullResponse] }

\* serde_json::to_vec of Option<CreateChatCompletionResponse>
response_json(response) ==
    IF ~response.some THEN << "null" >>
    ELSE << "{\"choices\"", ":", "[..]}" >>

\* session_manager.rs:131-141  serde_json::to_vec(&log_entry): the one line
\* of JSON text of a LogEntry (40-46)
to_vec(timestamp, request, response) ==
    << "{\"timestamp\"", ":", timestamp, ",\"request\"", ":",
       "{\"role\"", ":", "\"" \o request.role \o "\"",
       ",\"content\"", ":", "\"" \o request.content \o "\"", "}",
       ",\"response\"", ":" >> \o response_json(response) \o
    << ",\"errors\"", ":", "{\"api_error\"", ":", "null", ",\"no_response\"", ":",
       IF ~response.some THEN "true" ELSE "false", "}}" >>

\* the position of the first ":" of a line, 0 if it has none
first_colon(line) ==
    IF \E k \in 1..Len(line) : line[k] = ":"
    THEN CHOOSE k \in 1..Len(line) :
             line[k] = ":" /\ \A j \in 1..(k - 1) : line[j] # ":"
    ELSE 0

\* str::trim on pieces: the spaces at both ends go
RECURSIVE trim(_)
trim(pieces) ==
    IF pieces = << >> THEN pieces
    ELSE IF Head(pieces) = " " THEN trim(Tail(pieces))
    ELSE IF pieces[Len(pieces)] = " " THEN trim(SubSeq(pieces, 1, Len(pieces) - 1))
    ELSE pieces

\* session_manager.rs:95-115  the closure of filter_map: splitn(2, ':'),
\* the role before the colon, the trimmed rest as content
parse_line(line) ==
    LET k == first_colon(line)
        role == concat(SubSeq(line, 1, k - 1))
    IN IF k = 0 \/ role \notin {System, User, Assistant}
       THEN [some |-> FALSE]
       ELSE [some |-> TRUE,
             message |-> [role |-> role,
                          content |-> concat(trim(SubSeq(line, k + 1, Len(line))))]]

\* session_manager.rs:93-116  content.lines().filter_map(..).collect()
RECURSIVE parse_lines(_)
parse_lines(lines) ==
    IF lines = << >> THEN << >>
    ELSE (IF parse_line(Head(lines)).some
          THEN << parse_line(Head(lines)).message >> ELSE << >>)
             \o parse_lines(Tail(lines))

\* session_manager.rs:79-119  load_session; session_file is the path given,
\* used as it is
load_session(d, session_file) ==
    LET file == file_at(d, session_file)
    IN IF ~file.exists THEN [result |-> "err", error |-> "FileNotFound"]
       ELSE IF ~read_to_string(file).ok THEN [result |-> "err", error |-> "ReadError"]
       ELSE [result |-> "ok", messages |-> parse_lines(file.data)]

\* chrono::Local::now().timestamp() (130)
NOW == "1700000000"

\* session_manager.rs:122-144  save_chat_to_session: the files after the
\* call and what it returns
save_chat_to_session(d, filename, request, response, dir_ok, ser_ok, written) ==
    IF ~dir_ok THEN [disk |-> d, result |-> "panic"]
    ELSE IF ~ser_ok THEN [disk |-> d, result |-> "err"]
    ELSE [disk |-> fs_write(d, session_data_path(filename),
                            << to_vec(NOW, request, response) >>, written),
          result |-> IF written = "all" THEN "ok" ELSE "err"]

\* SessionManager::save_chat_to_session called
ManagerSaveChatToSession(filename, request, response, dir_ok, ser_ok, written) ==
    LET call == save_chat_to_session(disk, filename, request, response,
                                     dir_ok, ser_ok, written)
    IN /\ disk' = call.disk
       /\ returned' = [op |-> "save_chat_to_session", arg |-> filename,
                       request |-> request, result |-> call.result]
       /\ UNCHANGED << sessionVars, resolverVars, mainVars, idVars, toolVars, saver, recent >>

\* SessionManager::load_session(session_file) called; saved: the call
\* before it was a save_chat_to_session that returned Ok
ManagerLoadSession(session_file) ==
    /\ returned' = [op |-> "load_session", arg |-> session_file,
                    saved |-> IF returned.op = "save_chat_to_session"
                                  /\ returned.result = "ok"
                              THEN [some |-> TRUE, filename |-> returned.arg,
                                    request |-> returned.request]
                              ELSE [some |-> FALSE]]
                       @@ load_session(disk, session_file)
    /\ UNCHANGED << sessionVars, resolverVars, mainVars, idVars, toolVars, disk, saver, recent >>

\* the messages the model saves
Requests ==
    { [role |-> User, content |-> "Test message"],
      [role |-> Assistant, content |-> "a:b"] }

\* the paths load_session is given: a filename as it is, or the path
\* save_chat_to_session wrote to
LoadPaths == { << f >> : f \in Filenames } \cup { session_data_path(f) : f \in Filenames }

\* a file in the format load_session reads
RoleFile == File(<< role_line([role |-> System, content |-> "Be brief"]),
                    << "no colon here" >>,
                    role_line([role |-> User, content |-> "Test message"]) >>)

\* before the run: nothing under session_data; in the working directory
\* each filename is free or a file in the "role: message" format
InitManager ==
    InitStored({<< >>}, {new_session("1700000000").config},
               { [p \in LoadPaths |-> IF p \in here THEN RoleFile ELSE NoFile] :
                     here \in SUBSET { << f >> : f \in Filenames } })

NextManager ==
    \/ \E filename \in Filenames, request \in Requests, response \in Responses,
          dir_ok \in BOOLEAN, ser_ok \in BOOLEAN, written \in WriteOutcomes :
           ManagerSaveChatToSession(filename, request, response, dir_ok, ser_ok, written)
    \/ \E session_file \in LoadPaths : ManagerLoadSession(session_file)

SpecManager == InitManager /\ [][NextManager]_vars

\* C15 as stated: load_session with the filename a save_chat_to_session call
\* has just saved under succeeds and returns exactly the saved messages.
C15_ManagerRoundTrip ==
    (/\ returned.op = "load_session"
     /\ returned.saved.some
     /\ returned.arg = << returned.saved.filename >>) =>
        /\ returned.result = "ok"
        /\ returned.messages = << returned.saved.request >>

\* a save_session call has returned or panicked
SaveEnded ==
    /\ returned.op = "save_session"
    /\ returned.result \in {"ok", "err", "panic"}

MaxInputs == 2

\* Option<String> of opts.continue_session, as the path it names
NoPath == [some |-> FALSE]
SomePath(path) == [some |-> TRUE, path |-> path]

\* main.rs:88-93  the user message made of an input
user_message(input) == [role |-> User, content |-> input]

\* main.rs:102-106  the message of the reply that is displayed
reply_message == [role |-> Assistant, content |-> "Hello"]

\* main.rs:49-62  the messages main starts with: none with --new, else the
\* session named by --continue, else the one the pointer names, else none;
\* opened tells whether a session file was asked for and whether it exists
startup_load(d, new, continue_session, dir_ok) ==
    LET last_session == load_last_session_filename(d, dir_ok)
        opened(path) == [tried |-> TRUE, exists |-> file_at(d, path).exists]
    IN IF new THEN [result |-> "ok", messages |-> << >>,
                    opened |-> [tried |-> FALSE]]
       ELSE IF continue_session.some
            THEN [opened |-> opened(continue_session.path)]
                     @@ load_session(d, continue_session.path)
       ELSE IF last_session.result = "panic"
            THEN [result |-> "panic", opened |-> [tried |-> FALSE]]
       ELSE IF last_session.result = "some"
            THEN [opened |-> opened(<< last_session.value >>)]
                     @@ load_session(d, << last_session.value >>)
       ELSE [result |-> "ok", messages |-> << >>, opened |-> [tried |-> FALSE]]

\* main.rs:33-66  main up to the loop; a load error leaves main through `?`
Startup(new, continue_session, dir_ok) ==
    /\ main.pc = "start"
    /\ LET load == startup_load(disk, new, continue_session, dir_ok)
       IN main' = [pc |-> IF load.result = "ok" THEN "loop" ELSE "done",
                   exit |-> IF load.result = "ok" THEN "running" ELSE load.result,
                   opened |-> load.opened,
                   messages |-> IF load.result = "ok" THEN load.messages ELSE << >>,
                   landed |-> IF load.result = "ok" THEN load.messages ELSE << >>,
                   inputs |-> 0,
                   trigger |-> "none",
                   trail |-> << >>]
    /\ UNCHANGED << sessionVars, resolverVars, persistVars, idVars, toolVars >>

\* main.rs:88-110  an input that is no command: the user message is pushed,
\* the request sent and awaited, the reply displayed or the error printed
ReadInput(input, replied) ==
    /\ main.pc = "loop"
    /\ main.inputs < MaxInputs
    /\ main' = [main EXCEPT
                   !.messages = Append(@, user_message(input)),
                   !.landed = IF replied
                              THEN @ \o << user_message(input), reply_message >>
                              ELSE Append(@, user_message(input)),
                   !.inputs = @ + 1]
    /\ UNCHANGED << sessionVars, resolverVars, persistVars, idVars, toolVars >>

\* main.rs:82-86, 114-118, 121-125  the exit path: save_session(filename,
\* messages)?, save_last_session_filename(filename)?, the exit message,
\* break. SessionManager::save_session is not in session_manager.rs: the
\* call is recorded and its result drawn.
ExitPath(trigger, filename, saved, dir_ok, written) ==
    LET save == [call |-> "save_session", filename |-> filename,
                 messages |-> main.messages, result |-> saved]
        pointer == save_last_session_filename(disk, filename, dir_ok, written)
        point == [call |-> "save_last_session_filename", filename |-> filename,
                  messages |-> << >>, result |-> pointer.result]
    IN /\ main.pc = "loop"
       /\ IF saved # "ok"
          THEN /\ main' = [main EXCEPT !.pc = "done", !.exit = saved,
                                       !.trigger = trigger, !.trail = << save >>]
               /\ disk' = disk
          ELSE /\ main' = [main EXCEPT
                              !.pc = "done",
                              !.exit = pointer.result,
                              !.trigger = trigger,
                              !.trail = IF pointer.result = "ok"
                                        THEN << save, point,
                                                [call |-> "display_exit_message",
                                                 filename |-> "", messages |-> << >>,
                                                 result |-> "ok"] >>
                                        ELSE << save, point >>]
               /\ disk' = pointer.disk
       /\ UNCHANGED << sessionVars, resolverVars, saver, returned, recent, idVars, toolVars >>

SaveResults == {"ok", "err", "panic"}

\* main.rs:81-87  the input "exit" or "quit"
InputExit(word, filename, saved, dir_ok, written) ==
    ExitPath(word, filename, saved, dir_ok, written)

\* main.rs:113-119  Err(ReadlineError::Interrupted)
Interrupted(filename, saved, dir_ok, written) ==
    ExitPath("Interrupted", filename, saved, dir_ok, written)

\* main.rs:120-126  Err(ReadlineError::Eof)
Eof(filename, saved, dir_ok, written) ==
    ExitPath("Eof", filename, saved, dir_ok, written)

\* main.rs:127-130  any other read error: printed, break, nothing saved
ReadError ==
    /\ main.pc = "loop"
    /\ main' = [main EXCEPT !.pc = "done", !.exit = "ok", !.trigger = "Err"]
    /\ UNCHANGED << sessionVars, resolverVars, persistVars, idVars, toolVars >>

\* before main: the pointer is missing or names a session file; the named
\* files are where save_chat_to_session puts them, in the working
\* directory, or nowhere
InitMain ==
    /\ InitStored({<< >>}, {new_session("1700000000").config},
           { [p \in LoadPaths \cup {manager_last_session_path} |->
                 IF p = manager_last_session_path THEN pointer
                 ELSE IF p \in present THEN RoleFile ELSE NoFile] :
             pointer \in {NoFile} \cup { File(<< f >>) : f \in Filenames },
             present \in SUBSET LoadPaths })

NextMain ==
    \/ \E new \in BOOLEAN, dir_ok \in BOOLEAN,
          continue_session \in {NoPath} \cup { SomePath(p) : p \in LoadPaths } :
           Startup(new, continue_session, dir_ok)
    \/ \E input \in {"hello", "bye"}, replied \in BOOLEAN : ReadInput(input, replied)
    \/ \E word \in {"exit", "quit"}, filename \in Filenames, saved \in SaveResults,
          dir_ok \in BOOLEAN, written \in WriteOutcomes :
           InputExit(word, filename, saved, dir_ok, written)
    \/ \E filename \in Filenames, saved \in SaveResults,
          dir_ok \in BOOLEAN, written \in WriteOutcomes :
           Interrupted(filename, saved, dir_ok, written)
    \/ \E filename \in Filenames, saved \in SaveResults,
          dir_ok \in BOOLEAN, written \in WriteOutcomes :
           Eof(filename, saved, dir_ok, written)
    \/ ReadError

SpecMain == InitMain /\ [][NextMain]_vars

\* C12 as stated, for main: when the session file main is to load at
\* start-up does not exist, main goes on into its loop with no messages.
C12_MissingLoadsFresh ==
    (main.pc # "start" /\ main.opened.tried /\ ~main.opened.exists) =>
        /\ main.exit # "err"
        /\ main.messages = << >>

\* main has left the loop by "exit"/"quit", an interrupt or end of input
LeftByExitPath == main.pc = "done" /\ main.trigger \in {"exit", "quit", "Interrupted", "Eof"}

\* C20 as stated: on the way out main first calls the save with every
\* message that has landed so far, then, the save done, records the pointer
\* to the same file, and then ends.
C20_SaveAllThenPointer ==
    LeftByExitPath =>
        /\ main.trail # << >>
        /\ main.trail[1].call = "save_session"
        /\ main.trail[1].messages = main.landed
        /\ main.trail[1].result = "ok" =>
               /\ Len(main.trail) >= 2
               /\ main.trail[2].call = "save_last_session_filename"
               /\ main.trail[2].filename = main.trail[1].filename

(***************************************************************************)
(* SessionConfig::generate_session_id (session.rs:57-67, the same code at  *)
(* app/session_config.rs:48-58), called by threads of one process. The     *)
(* clock counts whole seconds; a thread's sleep of one second ends when    *)
(* the clock has moved on by at least one.                                 *)
(***************************************************************************)
\* seconds the clock advances per behaviour
MaxTicks == 3
\* calls of generate_session_id per behaviour
MaxIds == 3

Callers == {"a", "b"}

\* ids returned so far, over all callers
Issued == { x \in Callers \X (1..MaxIds) : x[2] <= Len(threads[x[1]].ids) }

\* calls made so far: those that returned and those asleep
Calls(c) == Len(threads[c].ids) + (IF threads[c].pc = "sleeping" THEN 1 ELSE 0)

\* session.rs:59-60  SystemTime::now().duration_since(UNIX_EPOCH).as_secs()
as_secs(now) == now

\* session.rs:59-63  the call up to thread::sleep: the seconds are read
CallGenerateSessionId(c) ==
    /\ threads[c].pc = "idle"
    /\ Calls("a") + Calls("b") < MaxIds
    /\ threads' = [threads EXCEPT ![c].pc = "sleeping",
                                  ![c].since_the_epoch = as_secs(clock)]
    /\ UNCHANGED << sessionVars, resolverVars, persistVars, mainVars, toolVars, clock >>

\* session.rs:63-66  the sleep is over: since_the_epoch.to_string() is returned
ReturnSessionId(c) ==
    /\ threads[c].pc = "sleeping"
    /\ clock >= threads[c].since_the_epoch + 1
    /\ threads' = [threads EXCEPT
                      ![c].pc = "idle",
                      ![c].ids = Append(@, ToString(threads[c].since_the_epoch))]
    /\ UNCHANGED << sessionVars, resolverVars, persistVars, mainVars, toolVars, clock >>

\* a second passes
Tick ==
    /\ clock < MaxTicks
    /\ clock' = clock + 1
    /\ UNCHANGED << sessionVars, resolverVars, persistVars, mainVars, toolVars, threads >>

InitIds ==
    /\ InitSession({FALSE})
    /\ InitResolverIdle
    /\ disk = << >>
    /\ saver = Idle
    /\ returned = NotCalled
    /\ recent = NeverSaved
    /\ main = NotStarted
    /\ clock = 0
    /\ threads = [c \in Callers |-> [pc |-> "idle", since_the_epoch |-> 0, ids |-> << >>]]
    /\ InitToolsIdle

NextIds ==
    \/ \E c \in Callers : CallGenerateSessionId(c)
    \/ \E c \in Callers : ReturnSessionId(c)
    \/ Tick

SpecIds == InitIds /\ [][NextIds]_vars

\* C19 as stated: any two calls of generate_session_id, on one thread or on
\* two, return different ids.
C19_UniqueIds ==
    \A x \in Issued, y \in Issued :
        x # y => threads[x[1]].ids[x[2]] # threads[y[1]].ids[y[2]]

(***************************************************************************)
(* Transport retry: one client call (client.chat().create(request),        *)
(* session.rs:256) under the backoff policy create_openai_client builds    *)
(* (session.rs:349-356). The retry loop itself belongs to the client       *)
(* library; it is modelled as the library documents it: a transient        *)
(* failure is retried after the next backoff interval unless the policy's  *)
(* elapsed-time ceiling says to give up, any other failure is returned at  *)
(* once. Time is in whole seconds on `clock`.                              *)
(***************************************************************************)
\* the clock is followed up to this second
MaxClock == 90

\* session.rs:353  Duration::from_secs(60)
MAX_ELAPSED_TIME == 60

\* variant: the policy is built without a ceiling
create_openai_client_unbounded == [max_elapsed_time |-> [some |-> FALSE]]

\* session.rs:352-355  the policy handed to Client::with_backoff
create_openai_client ==
    [max_elapsed_time |-> [some |-> TRUE, value |-> MAX_ELAPSED_TIME]]

\* seconds one attempt may take before it fails or succeeds
Durations == {0, 3}

\* seconds the policy may ask to wait before the next attempt (growing,
\* randomized intervals; never zero)
Intervals == {1, 7, 25}

\* the policy's clock: time since the call began
get_elapsed_time(t) == clock - t.start_time

\* the policy's decision after a transient failure: wait `interval`, or
\* give up when the ceiling is passed or the wait would pass it
next_backoff(policy, elapsed, interval) ==
    IF /\ policy.max_elapsed_time.some
       /\ elapsed + interval > policy.max_elapsed_time.value
    THEN [some |-> FALSE]
    ELSE [some |-> TRUE, value |-> interval]

\* the call has returned
Returned(result, t) ==
    [pc |-> "done", result |-> result, start_time |-> t.start_time,
     attempts |-> t.attempts, transient_only |-> t.transient_only]

\* session.rs:256  client.chat().create(request): the first attempt begins
CallCreate ==
    /\ transport = Idle
    /\ transport' = [pc |-> "attempt", start_time |-> clock, attempts |-> 1,
                     transient_only |-> TRUE]
    /\ UNCHANGED << sessionVars, resolverVars, persistVars, mainVars, idVars,
                    chunker, ingest >>

\* an attempt fails with a transient error after `duration` seconds
AttemptTransient(duration, interval) ==
    /\ transport.pc = "attempt"
    /\ clock + duration <= MaxClock
    /\ clock' = clock + duration
    /\ LET wait == next_backoff(create_openai_client,
                                clock + duration - transport.start_time, interval)
       IN transport' =
              IF wait.some
              THEN [pc |-> "sleeping", start_time |-> transport.start_time,
                    attempts |-> transport.attempts,
                    transient_only |-> transport.transient_only,
                    wake |-> clock + duration + wait.value]
              ELSE Returned("Err(transient)", transport)
    /\ UNCHANGED << sessionVars, resolverVars, persistVars, mainVars, threads,
                    chunker, ingest >>

\* an attempt ends in any other way: a reply, or an error that is not retried
AttemptEnds(result, duration) ==
    /\ transport.pc = "attempt"
    /\ clock + duration <= MaxClock
    /\ clock' = clock + duration
    /\ transport' = Returned(result, [transport EXCEPT !.transient_only = FALSE])
    /\ UNCHANGED << sessionVars, resolverVars, persistVars, mainVars, threads,
                    chunker, ingest >>

\* the wait is over: the next attempt begins
BackoffElapsed ==
    /\ transport.pc = "sleeping"
    /\ transport.wake <= MaxClock
    /\ clock' = transport.wake
    /\ transport' = [pc |-> "attempt", start_time |-> transport.start_time,
                     attempts |-> transport.attempts + 1,
                     transient_only |-> transport.transient_only]
    /\ UNCHANGED << sessionVars, resolverVars, persistVars, mainVars, threads,
                    chunker, ingest >>

InitRetry ==
    /\ InitSession({FALSE})
    /\ InitResolverIdle
    /\ InitPersistIdle

NextRetry ==
    \/ CallCreate
    \/ \E duration \in Durations, interval \in Intervals :
           AttemptTransient(duration, interval)
    \/ \E result \in {"Ok", "Err(permanent)"}, duration \in Durations :
           AttemptEnds(result, duration)
    \/ BackoffElapsed

\* the call is driven on: an attempt ends, a wait ends
SpecRetry == InitRetry /\ [][NextRetry]_vars /\ WF_vars(NextRetry)

\* C21: against an endpoint whose every attempt fails with a transient
\* error, no attempt begins once the ceiling of 60 seconds since the call
\* began is passed, the call ends returning the error to its caller, and
\* every call does end: it is never retried forever.
C21_RetryBound ==
    /\ [](transport.pc = "attempt"
              => get_elapsed_time(transport) <= MAX_ELAPSED_TIME)
    /\ []((transport.pc = "done" /\ transport.transient_only)
              => transport.result = "Err(transient)")
    /\ <>(transport.pc = "done")

\* C21: a call gave up after several attempts that all failed with a
\* transient error, the last of them begun in the final ten seconds
C21_Witness ==
    /\ transport.pc = "done"
    /\ transport.transient_only
    /\ transport.attempts >= 3
    /\ transport.result = "Err(transient)"
    /\ get_elapsed_time(transport) >= MAX_ELAPSED_TIME - 10

(***************************************************************************)
(* Request Builder properties.                                             *)
(***************************************************************************)
\* the request of the most recent transaction (pushed by request_response)
built == transactions[Len(transactions)].body

\* C22: the request built for a chunk list carries one message per chunk,
\* in chunk order: as many messages as chunks, message i with role user and
\* content chunk i.
C22_OneMessagePerChunk ==
    [][\A chunks \in ChunkResults :
           SubmitInput(chunks) =>
               /\ Len(built'.messages) = Len(chunks)
               /\ \A i \in 1..Len(chunks) :
                      /\ built'.messages[i].role = User
                      /\ built'.messages[i].content = chunks[i]]_vars

\* C22: a request was built from two chunks, the second one last
C22_Witness ==
    /\ Requested
    /\ Len(built.messages) = 2
    /\ built.messages[2] = [role |-> User, content |-> "b"]

\* C23: every built request carries the function declaration block exactly
\* when config.include_functions is true: the registry's catalog when it is
\* true, no block when it is false.
C23_FunctionsIffEnabled ==
    \A i \in 1..Len(transactions) :
        transactions[i].kind = "Request" =>
            /\ (transactions[i].body.functions # None) <=> config.include_functions
            /\ config.include_functions
                   => transactions[i].body.functions = "define_commands"

\* C23: a request was built under a config that includes the functions
C23_Witness ==
    /\ Requested
    /\ config.include_functions
    /\ built.functions = "define_commands"

(***************************************************************************)
(* SpecDispatch: the foreground loop and the dispatch tasks of Spec, with  *)
(* at most MaxTasks request_response calls: what one dispatch does from    *)
(* its request to its last message.                                        *)
(***************************************************************************)
\* request_response calls per behaviour (SpecDispatch)
MaxTasks == 1

NextDispatch ==
    \/ Len(tasks) < MaxTasks /\ SubmitInput(<<"a">>)
    \/ Receive
    \/ \E d \in 1..Len(tasks) : TaskEnter(d)
    \/ \E d \in 1..Len(tasks), opened \in BOOLEAN : TaskOpenStream(d, opened)
    \/ \E d \in 1..Len(tasks), chunk \in StreamFragments : TaskStreamOk(d, chunk)
    \/ \E d \in 1..Len(tasks) : TaskStreamErr(d)
    \/ \E d \in 1..Len(tasks) : TaskStreamEnd(d)
    \/ \E d \in 1..Len(tasks), outcome \in {"ok", "err", "panic"} : TaskCreate(d, outcome)
    \/ \E d \in 1..Len(tasks) : TaskExit(d)

SpecDispatch == Init /\ [][NextDispatch]_vars

\* how many actions of type `type` task d has sent
Sent(d, type) == Cardinality({ i \in 1..Len(sent[d]) : sent[d][i] = type })

\* the replies of dispatch d waiting in the channel
Waiting(d) ==
    { i \in 1..Len(chan) : chan[i].type = "ProcessResponse" /\ chan[i].dispatch = d }

\* the replies of dispatch d the foreground has handled
HandledOf(d) ==
    { i \in 1..Len(calls) : calls[i].kind # "Request" /\ calls[i].dispatch = d }

\* the replies of dispatch d, handled or waiting
Replies(d) ==
    { calls[i] : i \in HandledOf(d) } \cup { chan[i].transaction : i \in Waiting(d) }

\* C24: the streaming flag of every request equals config.stream_response,
\* and the path a dispatch takes agrees with the flag of its request: only a
\* request with stream = true is read as a stream and yields StreamResponse
\* fragments, and a request with stream = false yields no fragment and at
\* most one Response.
C24_PathAgreesWithFlag ==
    \A d \in 1..Len(tasks) :
        LET request == tasks[d].request
        IN /\ request.stream = config.stream_response
           /\ \E i \in 1..Len(transactions) :
                  transactions[i] = RequestTx(request, d)
           /\ tasks[d].pc = "stream" => request.stream
           /\ \A t \in Replies(d) : IsStream(t) <=> request.stream
           /\ ~request.stream => Sent(d, "ProcessResponse") <= 1

\* C24: a request with stream = true was read as a stream and two of its
\* fragments went to the foreground
C24_Witness ==
    \E d \in 1..Len(tasks) :
        /\ tasks[d].request.stream
        /\ Cardinality(Replies(d)) = 2
        /\ HandledOf(d) # {}

\* the "changed" notifications (Action::Update) in the channel
Updates == { i \in 1..Len(chan) : chan[i] = UpdateAction }

\* C27 as stated: every change of the transaction log, by request_response
\* as by process_response_handler, sends exactly one Action::Update: with
\* nothing taken from the channel, it holds as many notifications as the
\* log has transactions.
C27_NotifyEveryChange == Cardinality(Updates) = Len(transactions)

\* C28: the dispatch tasks never touch the Session's log or config: the log
\* is exactly what the foreground handlers (request_response,
\* process_response_handler) pushed, call by call; a reply is in the log only
\* after its task sent it as a message, one transaction per message taken
\* from the channel; and a task works on its own copies of the request and
\* of the streaming flag, taken from the config that is still in place.
C28_TasksOnlySend ==
    /\ transactions = calls
    /\ \A d \in 1..Len(tasks) :
           /\ Cardinality(HandledOf(d)) + Cardinality(Waiting(d))
                  = Sent(d, "ProcessResponse")
           /\ tasks[d].request = construct_request(tasks[d].request.messages, config)
           /\ tasks[d].stream_response = config.stream_response

\* C28: a task has sent two replies; the foreground has pushed the first
\* on the log and the second waits in the channel
C28_Witness ==
    \E d \in 1..Len(tasks) :
        /\ Cardinality(HandledOf(d)) = 1
        /\ Cardinality(Waiting(d)) = 1

\* C29: no error result of a dispatch is swallowed. Every item a stream
\* yields becomes one message, a fragment one ProcessResponse and an error
\* result one Action::Error; a one-shot call that has returned has sent one
\* message, an Action::Error when it failed; an Action::Error adds nothing
\* to the log; and a stream that yielded an error is still being read, so
\* that its later fragments are forwarded.
C29_ErrorsForwarded ==
    /\ Len(transactions)
           = Len(tasks) + Cardinality({ i \in 1..Len(calls) : calls[i].kind # "Request" })
    /\ \A d \in 1..Len(tasks) :
           LET replies == Cardinality(HandledOf(d)) + Cardinality(Waiting(d))
           IN IF tasks[d].stream_response
              THEN /\ Sent(d, "Error") = tasks[d].yielded - replies
                   /\ (sent[d] # << >> /\ sent[d][Len(sent[d])] = "Error")
                          => tasks[d].pc = "stream"
              ELSE /\ tasks[d].pc \in {"exit", "done"}
                          => Sent(d, "Error") = 1 - replies
                   /\ tasks[d].pc \notin {"exit", "done"} => Sent(d, "Error") = 0

\* C29: a stream yielded an error and then a fragment; both were sent, the
\* error added nothing to the log and the fragment was pushed on it
C29_Witness ==
    \E d \in 1..Len(tasks) :
        /\ Len(sent[d]) >= 3
        /\ sent[d][2] = "Error"
        /\ sent[d][3] = "ProcessResponse"
        /\ Cardinality(HandledOf(d)) = 1
        /\ chan = << >>

\* C30 as stated: a task that has sent EnterProcessing sends ExitProcessing
\* in the end, whatever the outcome of its request: at any time it has sent
\* ExitProcessing already or is still on its way to the send.
C30_EveryDispatchExits ==
    \A d \in 1..Len(tasks) :
        Sent(d, "EnterProcessing") = 1 =>
            \/ Sent(d, "ExitProcessing") = 1
            \/ tasks[d].pc \in {"request", "stream", "exit"}

(***************************************************************************)
(* SessionManager::handle_ingest (session_manager.rs:222-280). The chunker *)
(* (FileChunker::chunkify_input) and the API call (GPTConnector) are       *)
(* collaborators outside this file: their results are drawn.               *)
(***************************************************************************)
\* a directory
Dir == [exists |-> TRUE, dir |-> TRUE, data |-> << >>]

\* Path::is_file, Path::is_dir
is_file(file) == file.exists /\ "dir" \notin DOMAIN file
is_dir(file) == file.exists /\ "dir" \in DOMAIN file

\* Path::file_name
file_name(path) == path[Len(path)]

\* the files offered for ingestion, and their directory
DATA_DIR == << "tests", "data" >>
TextFile == DATA_DIR \o << "testText1.txt" >>
PdfFile == DATA_DIR \o << "NIST.SP.800-185.pdf" >>

\* an input that names no file: a block of text
Text == << "Hello, World!" >>

IngestInputs == {TextFile, PdfFile, DATA_DIR, Text}

\* session_manager.rs:264-267  base_dir.join("ingested").join(file_name)
ingested_dir == << BASE_DIR, "ingested" >>
ingested_path(path) == ingested_dir \o << file_name(path) >>

\* session_manager.rs:358  the ingest log of chunk n, as the tests look for it
ingest_log_path(n) == ingested_dir \o << ToString(n) \o "_ingest.json" >>

\* std::fs::read_dir(p): the entries of directory p
read_dir(d, p) ==
    { q \in DOMAIN d : /\ Len(q) = Len(p) + 1
                       /\ SubSeq(q, 1, Len(p)) = p
                       /\ d[q].exists }

\* session_manager.rs:226-250  the paths to process for an input
paths_to_process(d, input) ==
    LET p == file_at(d, input)
        found == IF is_dir(p) THEN { q \in read_dir(d, input) : is_file(d[q]) }
                 ELSE IF is_file(p) THEN { input }
                 ELSE {}
    IN IF found = {} THEN { input } ELSE found

\* handle_ingest has returned: "ok", or the error that ended it ("chunker",
\* "api", "io": an I/O error of the copy, "not_found": nowhere to copy to)
IngestReturned(result) == [ingest EXCEPT !.pc = "done", !.result = result]

\* session_manager.rs:222-250  handle_ingest(input) called
IngestCall(input) ==
    /\ ingest = Idle
    /\ ingest' = [pc |-> "chunkify", input |-> input,
                  paths |-> paths_to_process(disk, input),
                  path |-> << >>, chunks |-> << >>, ingested |-> << >>,
                  result |-> "none"]
    /\ UNCHANGED << sessionVars, resolverVars, persistVars, mainVars, idVars,
                    transport, chunker >>

\* session_manager.rs:253-260  the next path is chunkified: the chunker
\* returns its chunks, or an error that `?` returns
IngestChunkify(path, chunkified) ==
    /\ ingest.pc = "chunkify"
    /\ path \in ingest.paths
    /\ ingest' = IF chunkified.ok
                 THEN [ingest EXCEPT !.pc = "send", !.path = path,
                                     !.paths = @ \ { path },
                                     !.chunks = chunkified.chunks]
                 ELSE IngestReturned("chunker")
    /\ UNCHANGED << sessionVars, resolverVars, persistVars, mainVars, idVars,
                    transport, chunker >>

\* session_manager.rs:262-277  the chunks are sent to the API and, after the
\* reply, a file is copied to base_dir/ingested; sent_ok: the API call
\* succeeded; copied: fs::copy met no I/O error of its own (it fails anyway
\* when the directory it copies to is not there)
IngestSend(sent_ok, copied) ==
    /\ ingest.pc = "send"
    /\ LET src == file_at(disk, ingest.path)
           dest == ingested_path(ingest.path)
           next == [ingest EXCEPT !.ingested = Append(@, ingest.path)]
           done == IF ingest.paths = {}
                   THEN [next EXCEPT !.pc = "done", !.result = "ok"]
                   ELSE [next EXCEPT !.pc = "chunkify"]
       IN CASE ~sent_ok ->
                   ingest' = IngestReturned("api") /\ disk' = disk
            [] sent_ok /\ ~is_file(src) ->
                   ingest' = done /\ disk' = disk
            [] sent_ok /\ is_file(src) /\ ~is_dir(file_at(disk, ingested_dir)) ->
                   ingest' = IngestReturned("not_found") /\ disk' = disk
            [] sent_ok /\ is_file(src) /\ is_dir(file_at(disk, ingested_dir))
                       /\ ~copied ->
                   ingest' = IngestReturned("io") /\ disk' = disk
            [] OTHER ->
                   ingest' = done /\ disk' = [disk EXCEPT ![dest] = src]
    /\ UNCHANGED << sessionVars, resolverVars, mainVars, idVars, transport,
                    chunker, saver, returned, recent >>

\* what the chunker may return for an input
Chunkified ==
    { [ok |-> TRUE, chunks |-> c] : c \in ChunkResults \cup { << >> } }
        \cup { [ok |-> FALSE] }

\* the paths of the model's file system
IngestPaths ==
    { DATA_DIR, TextFile, PdfFile, ingested_dir,
      ingested_path(TextFile), ingested_path(PdfFile) }
        \cup { ingest_log_path(n) : n \in 1..2 }

\* before the call: the files to ingest are there; base_dir/ingested is
\* missing (a fresh base directory) or there, and holds no file or an
\* earlier copy
IngestDisks ==
    { [p \in IngestPaths |->
          CASE p = DATA_DIR -> Dir
            [] p = TextFile -> File(<< "plain text" >>)
            [] p = PdfFile -> BinaryFile
            [] p = ingested_dir -> IF made THEN Dir ELSE NoFile
            [] p = ingested_path(TextFile) ->
                   IF made /\ old THEN File(<< "old" >>) ELSE NoFile
            [] OTHER -> NoFile] :
        made \in BOOLEAN, old \in BOOLEAN }

InitIngest ==
    InitStored({<< >>}, {new_session("1700000000").config}, IngestDisks)

NextIngest ==
    \/ \E input \in IngestInputs : IngestCall(input)
    \/ \E path \in IngestPaths \cup { Text }, chunkified \in Chunkified :
           IngestChunkify(path, chunkified)
    \/ \E sent_ok \in BOOLEAN, copied \in BOOLEAN : IngestSend(sent_ok, copied)

SpecIngest == InitIngest /\ [][NextIngest]_vars

\* the ingest logs on disk
IngestLogs == { p \in DOMAIN disk : disk[p].exists /\ p \in { ingest_log_path(n) : n \in 1..2 } }

\* C26 as stated: handle_ingest on a path to an existing file, with the
\* chunker and the API call succeeding and no I/O error, returns Ok with a non-empty chunk
\* sequence, leaves a copy of the file in the ingested directory under the
\* base directory, and leaves one ingest log file per chunk.
C26_IngestStoresAndLogs ==
    (/\ ingest.pc = "done"
     /\ ingest.input \in {TextFile, PdfFile}
     /\ ingest.result \in {"ok", "not_found"}
     /\ ingest.chunks # << >>) =>
        /\ ingest.result = "ok"
        /\ disk[ingested_path(ingest.input)] = disk[ingest.input]
        /\ Cardinality(IngestLogs) = Len(ingest.chunks)

(***************************************************************************)
(* Chunker: parse_input(content, CHUNK_TOKEN_LIMIT, model.token_limit),    *)
(* called at session.rs:362, of module app::tools::chunkifier. It is       *)
(* modelled by its contract: lines are the atomic units, a chunk is a run  *)
(* of whole lines packed up to the budget, and a line over the budget is   *)
(* emitted as a chunk of its own.                                          *)
(***************************************************************************)
MaxLines == 3

\* the lines a text is made of, each as the tokens it encodes to
Lines == { << "a" >>, << "b", "c" >>, << "d", "e", "f" >> }

\* the input texts: up to MaxLines lines
Texts == UNION { [1..n -> Lines] : n \in 0..MaxLines }

\* the limits a call is given, and the framing cost reserved per request
ChunkLimits == { 2, 3 }
ModelLimits == { 3, 6 }
ReservedOverheads == { 1 }

\* the tokenizer: the number of tokens of a run of lines
RECURSIVE encode(_)
encode(lines) ==
    IF lines = << >> THEN 0 ELSE Len(Head(lines)) + encode(Tail(lines))

\* the token budget of a chunk
budget(max_tokens_per_chunk, model_token_limit, reserved_overhead) ==
    IF max_tokens_per_chunk <= model_token_limit - reserved_overhead
    THEN max_tokens_per_chunk
    ELSE model_token_limit - reserved_overhead

\* variant: a line that does not fit the budget alone is dropped
RECURSIVE pack_dropping(_, _, _)
pack_dropping(lines, current, B) ==
    IF lines = << >>
    THEN IF current = << >> THEN << >> ELSE << current >>
    ELSE LET line == Head(lines)
         IN IF Len(line) > B
            THEN pack_dropping(Tail(lines), current, B)
            ELSE IF encode(current) + Len(line) <= B
                 THEN pack_dropping(Tail(lines), Append(current, line), B)
                 ELSE << current >> \o pack_dropping(Tail(lines), << line >>, B)

\* the chunks of `lines` after the lines in `current`, which are in the
\* chunk being filled: a line joins the chunk while the chunk stays within
\* the budget B, otherwise the chunk is closed and the line opens the next
\* one (alone over the budget or not)
RECURSIVE pack(_, _, _)
pack(lines, current, B) ==
    IF lines = << >>
    THEN IF current = << >> THEN << >> ELSE << current >>
    ELSE LET line == Head(lines)
         IN IF encode(current) + Len(line) <= B
            THEN pack(Tail(lines), Append(current, line), B)
            ELSE IF current = << >>
                 THEN << << line >> >> \o pack(Tail(lines), << >>, B)
                 ELSE << current >> \o pack(Tail(lines), << line >>, B)

\* parse_input: the chunks of a text, in order
parse_input(text, max_tokens_per_chunk, model_token_limit, reserved_overhead) ==
    pack(text, << >>,
         budget(max_tokens_per_chunk, model_token_limit, reserved_overhead))

\* the chunks joined in order
RECURSIVE joined(_)
joined(chunks) ==
    IF chunks = << >> THEN << >> ELSE Head(chunks) \o joined(Tail(chunks))

\* parse_input is called and returns
ChunkerCall(text, max_tokens_per_chunk, model_token_limit, reserved_overhead) ==
    /\ chunker.pc = "idle"
    /\ chunker' = [pc |-> "done", text |-> text,
                   budget |-> budget(max_tokens_per_chunk, model_token_limit,
                                     reserved_overhead),
                   chunks |-> parse_input(text, max_tokens_per_chunk,
                                          model_token_limit, reserved_overhead)]
    /\ UNCHANGED << sessionVars, resolverVars, persistVars, mainVars, idVars,
                    transport, ingest >>

\* the caller has taken the chunks
ChunkerTaken ==
    /\ chunker.pc = "done"
    /\ chunker' = Idle
    /\ UNCHANGED << sessionVars, resolverVars, persistVars, mainVars, idVars,
                    transport, ingest >>

InitChunker == Init

NextChunker ==
    \/ \E text \in Texts, max_tokens_per_chunk \in ChunkLimits,
          model_token_limit \in ModelLimits,
          reserved_overhead \in ReservedOverheads :
           ChunkerCall(text, max_tokens_per_chunk, model_token_limit,
                       reserved_overhead)
    \/ ChunkerTaken

SpecChunker == InitChunker /\ [][NextChunker]_vars

\* a chunk made of one line that alone is over the budget
Oversized(chunk, B) == Len(chunk) = 1 /\ Len(chunk[1]) > B

\* C25 as stated: every chunk encodes to at most B tokens, the chunks joined
\* in order give the text back, and a non-empty text gives at least one chunk.
C25_EveryChunkWithinBudget ==
    chunker.pc = "done" =>
        /\ \A i \in 1..Len(chunker.chunks) :
               encode(chunker.chunks[i]) <= chunker.budget
        /\ joined(chunker.chunks) = chunker.text
        /\ chunker.text # << >> => Len(chunker.chunks) >= 1

\* C25, amended: every chunk encodes to at most B tokens unless it is a
\* single line that alone is over B; no chunk is empty; the chunks joined in
\* order give the text back; a non-empty text gives at least one chunk.
C25_ChunksWithinBudgetOrAtomic ==
    chunker.pc = "done" =>
        /\ \A i \in 1..Len(chunker.chunks) :
               /\ chunker.chunks[i] # << >>
               /\ \/ encode(chunker.chunks[i]) <= chunker.budget
                  \/ Oversized(chunker.chunks[i], chunker.budget)
        /\ joined(chunker.chunks) = chunker.text
        /\ chunker.text # << >> => Len(chunker.chunks) >= 1

\* a text was split into a chunk of two lines and a chunk that is one line
\* over the budget
C25_Witness ==
    /\ chunker.pc = "done"
    /\ \E i, j \in 1..Len(chunker.chunks) :
           /\ Len(chunker.chunks[i]) = 2
           /\ Oversized(chunker.chunks[j], chunker.budget)

\* the place of the first action of type `type` task d has sent (0: none)
FirstSent(d, type) ==
    IF Sent(d, type) = 0 THEN 0
    ELSE CHOOSE i \in 1..Len(sent[d]) :
             /\ sent[d][i] = type
             /\ \A j \in 1..(i - 1) : sent[d][j] # type

\* C31: the processing bracket of every dispatch. The Request transaction of
\* a dispatch is on the log before its task sends anything; the first
\* message of the task is its one EnterProcessing; every ProcessResponse and
\* Error of the dispatch is sent after it, and before the ExitProcessing
\* when there is one; and ExitProcessing, sent at most once, is the last
\* message of the dispatch.
C31_ProcessingBracket ==
    \A d \in 1..Len(tasks) :
        /\ \E i \in 1..Len(calls) :
               /\ calls[i] = RequestTx(tasks[d].request, d)
               /\ transactions[i] = calls[i]
        /\ tasks[d].pc = "spawned" <=> sent[d] = << >>
        /\ Sent(d, "EnterProcessing") <= 1
        /\ Sent(d, "ExitProcessing") <= 1
        /\ \A i \in 1..Len(sent[d]) :
               /\ sent[d][i] \in {"EnterProcessing", "ProcessResponse",
                                  "Error", "ExitProcessing"}
               /\ sent[d][i] = "EnterProcessing" <=> i = 1
               /\ sent[d][i] = "ExitProcessing" => i = Len(sent[d])
               /\ sent[d][i] \in {"ProcessResponse", "Error"} =>
                      /\ FirstSent(d, "EnterProcessing") < i
                      /\ Sent(d, "ExitProcessing") = 1 =>
                             i < FirstSent(d, "ExitProcessing")

\* C31: a dispatch has sent EnterProcessing, a reply, an error and
\* ExitProcessing, in this order
C31_Witness ==
    \E d \in 1..Len(tasks) :
        sent[d] = << "EnterProcessing", "ProcessResponse", "Error",
                     "ExitProcessing" >>

(***************************************************************************)
(* The id of a loaded session (SpecPersist).                               *)
(***************************************************************************)
\* C32 as stated: the Session returned by load_session_by_id(id) carries
\* config.session_id = id, also when the file is missing and a new Session
\* is returned.
C32_LoadedCarriesRequestedId ==
    (Loaded /\ returned.result = "session") =>
        returned.session.config.session_id = returned.arg

(***************************************************************************)
(* SpecSessions: the session files of SessionManager and its last-session  *)
(* pointer, with delete_session (session_manager.rs:122-175). The pointer  *)
(* is saved as main saves it: after a save of the session file that        *)
(* returned Ok, with the same filename (main.rs:82-84).                    *)
(***************************************************************************)
\* session_manager.rs:168-175  delete_session: the files after the call and
\* what it returns; removed: fs::remove_file succeeded
delete_session(d, filename, dir_ok, removed) ==
    IF ~dir_ok THEN [disk |-> d, result |-> "panic"]
    ELSE IF d[session_data_path(filename)].exists
         THEN IF removed
              THEN [disk |-> [d EXCEPT ![session_data_path(filename)] = NoFile],
                    result |-> "ok"]
              ELSE [disk |-> d, result |-> "err"]
         ELSE [disk |-> d, result |-> "ok"]

\* SessionManager::delete_session(filename) called
ManagerDeleteSession(filename, dir_ok, removed) ==
    LET call == delete_session(disk, filename, dir_ok, removed)
    IN /\ disk' = call.disk
       /\ returned' = [op |-> "delete_session", arg |-> filename,
                       result |-> call.result]
       /\ UNCHANGED << sessionVars, resolverVars, mainVars, idVars, toolVars,
                       saver, recent >>

\* the last call was a save of the session file `filename` that returned Ok
JustSaved(filename) ==
    /\ returned.op = "save_chat_to_session"
    /\ returned.result = "ok"
    /\ returned.arg = filename

\* before the run: no session file and no pointer under session_data
InitSessions ==
    InitStored({<< >>}, {new_session("1700000000").config},
               { [p \in { session_data_path(f) : f \in Filenames }
                           \cup { manager_last_session_path } |-> NoFile] })

NextSessions ==
    \/ \E filename \in Filenames, request \in Requests, response \in Responses,
          dir_ok \in BOOLEAN, ser_ok \in BOOLEAN, written \in WriteOutcomes :
           ManagerSaveChatToSession(filename, request, response, dir_ok, ser_ok, written)
    \/ \E filename \in Filenames, dir_ok \in BOOLEAN, written \in WriteOutcomes :
           JustSaved(filename)
               /\ ManagerSaveLastSessionFilename(filename, dir_ok, written)
    \/ \E filename \in Filenames, dir_ok \in BOOLEAN, removed \in BOOLEAN :
           ManagerDeleteSession(filename, dir_ok, removed)

SpecSessions == InitSessions /\ [][NextSessions]_vars

\* the filename the last-session pointer holds
PointerNames(filename) ==
    /\ disk[manager_last_session_path].exists
    /\ disk[manager_last_session_path].data = << filename >>

\* C33 as stated: whenever the last-session pointer exists and holds a
\* filename, the session file of that name exists: no call, delete_session
\* included, removes a session file the pointer still names.
C33_PointerNamesExistingFile ==
    \A filename \in Filenames :
        PointerNames(filename) => disk[session_data_path(filename)].exists

====
